---- MODULE Spec2Model ----
(***************************************************************************)
(* LD2412 radar tools: byte-stream buffering, frame synchronisation,       *)
(* telemetry decoding, statistics and behaviour analysis, and the          *)
(* reader-thread / UI-loop hand-off, as implemented by the front-ends      *)
(*   analyzer      src/ld2412_analyzer.py      (class LD2412Analyzer)      *)
(*   enhanced      src/ld2412_enhanced_gui.py  (class EnhancedLD2412GUI)   *)
(*   analyzer_cli  src/ld2412_analyzer_cli.py  (class LD2412AnalyzerCLI)   *)
(* Python indices are 0-based; sequences here are 1-based, so the byte     *)
(* buffer[i] of the source is buf[i+1] below.                              *)
(***************************************************************************)
EXTENDS Integers, Sequences, FiniteSets, TLC

VARIABLES
    variant,        \* which front-end is running
    transport,      \* chunks the serial link will still deliver, in order
    raw_buffer,     \* self.raw_buffer
    data_history,   \* self.data_history (one deque per series)
    stats,          \* self.stats
    patterns,       \* self.patterns / self.behavior
    current_data,   \* self.current_data (enhanced), "None" when unset
    alerts,         \* alerts logged/queued by the most recent frame parse
    printed,        \* what parse_data_frame / parse_cmd_frame printed during the most recent call
    data_queue,     \* self.data_queue
    serial_port,    \* "None", "open" or "closed"
    is_connected,   \* self.is_connected
    is_monitoring,  \* self.is_monitoring
    reader_pc,      \* position of the reader thread
    reader_data,    \* the reader thread's local `data`
    ui_pc,          \* position of the UI / main-loop thread
    iteration_monitoring, \* history: is_monitoring as the reader's current iteration found it
    clock,          \* the wall clock, what time.time() returns
    read_chunks,    \* history: chunks read from the transport, in order
    calls,          \* history: chunks appended to raw_buffer and resets, in order
    twin            \* a second, independent instance and the number of chunks fed to it

coreVars == <<raw_buffer, data_history, stats, patterns, current_data, alerts, printed>>
threadVars == <<data_queue, serial_port, is_connected, is_monitoring,
                reader_pc, reader_data, ui_pc, iteration_monitoring>>
vars == <<variant, transport, raw_buffer, data_history, stats, patterns,
          current_data, alerts, printed, data_queue, serial_port, is_connected,
          is_monitoring, reader_pc, reader_data, ui_pc, iteration_monitoring,
          clock, read_chunks, calls, twin>>

(***************************************************************************)
(* Bounds of the model                                                     *)
(***************************************************************************)
MaxFeeds == 2
MaxClears == 1
MaxClock == 2
GarbageLen == 1100
MaxGarbage == 2

(***************************************************************************)
(* Program constants                                                       *)
(***************************************************************************)
Variants == {"analyzer", "enhanced", "analyzer_cli"}

DATA_HEADER == <<244, 243, 242, 241>>
DATA_FOOTER == <<248, 247, 246, 245>>
MIN_FRAME_LEN == 23
FOOTER_WINDOW == 50
UNSET_MIN_DISTANCE == 9999

HighWater(v) == IF v = "enhanced" THEN 2000 ELSE 1000
\* every front-end keeps the last 500 bytes
LowWaterShort(v) == 500
LowWater(v) == IF v = "enhanced" THEN 1000 ELSE 500
Capacity(v) == IF v = "enhanced" THEN 200 ELSE 100
BoundedWindow(v) == v \in {"enhanced", "analyzer_cli"}
UsesQueue(v) == v \in {"analyzer", "enhanced"}

(***************************************************************************)
(* Helpers                                                                 *)
(***************************************************************************)
Min(S) == CHOOSE x \in S : \A y \in S : x <= y
MinOf(a, b) == IF a <= b THEN a ELSE b
MaxOf(a, b) == IF a >= b THEN a ELSE b

\* Python slice buf[a:b] for 0 <= a <= b <= len(buf)
Slice(buf, a, b) == SubSeq(buf, a + 1, b)

\* Python slice buf[-n:]
LastN(buf, n) == IF Len(buf) <= n THEN buf ELSE SubSeq(buf, Len(buf) - n + 1, Len(buf))

\* a deque that refuses the new element once it is full
DequeAppendKeepsOldest(q, x, n) == IF Len(q) >= n THEN q ELSE Append(q, x)

\* collections.deque(maxlen=n).append(x)
DequeAppend(q, x, n) == LET a == Append(q, x) IN IF Len(a) > n THEN Tail(a) ELSE a

RECURSIVE Flatten(_)
Flatten(chunks) == IF chunks = <<>> THEN <<>> ELSE Head(chunks) \o Flatten(Tail(chunks))

RECURSIVE SumSeq(_)
SumSeq(s) ==
    IF Len(s) = 0 THEN 0
    ELSE IF Len(s) = 1 THEN s[1]
    ELSE LET m == Len(s) \div 2
         IN  SumSeq(SubSeq(s, 1, m)) + SumSeq(SubSeq(s, m + 1, Len(s)))

Bit0(b) == b % 2 = 1
Bit1(b) == (b \div 2) % 2 = 1
Bit2(b) == (b \div 4) % 2 = 1

(***************************************************************************)
(* Initial values of the core state (the constructors)                     *)
(***************************************************************************)
InitHistory ==
    [time |-> <<>>, moving_distance |-> <<>>, moving_energy |-> <<>>,
     still_distance |-> <<>>, still_energy |-> <<>>,
     detection_distance |-> <<>>, target_state |-> <<>>, light_value |-> <<>>]

\* An average is kept as the exact quotient sum/n (Python computes a float).
ZeroAvg == [sum |-> 0, n |-> 1]

\* self.stats; start_time (enhanced, analyzer_cli) and last_update (enhanced)
\* are the time.time() value read when it is built.  A field a variant does
\* not have keeps its value here.  (avg_moving_distance / avg_still_distance
\* of the analyzer are written nowhere after construction and are left out.)
NewStats(v, now) ==
    [total_frames |-> 0, moving_detections |-> 0, still_detections |-> 0,
     no_target |-> 0, max_distance |-> 0, min_distance |-> UNSET_MIN_DISTANCE,
     avg_moving_energy |-> ZeroAvg, avg_still_energy |-> ZeroAvg,
     max_moving_energy |-> 0, max_still_energy |-> 0,
     start_time |-> IF v = "analyzer" THEN 0 ELSE now,
     last_update |-> IF v = "enhanced" THEN now ELSE 0]

\* self.patterns (analyzer, analyzer_cli) / self.behavior (enhanced).
\* last_distances is behavior['last_distances'] / patterns['distance_trend'].
InitPatterns ==
    [approach |-> 0, leave |-> 0, stable |-> 0, noise |-> 0,
     last_distances |-> <<>>, state_changes |-> <<>>, last_distance |-> 0]

\* One core instance: everything the frame handlers read and write.
\* out is the list of messages the handler puts on data_queue (analyzer_cli).
NewCore(v, now) ==
    [raw_buffer |-> <<>>, data_history |-> InitHistory, stats |-> NewStats(v, now),
     patterns |-> InitPatterns, current_data |-> "None", alerts |-> <<>>,
     out |-> <<>>]

(***************************************************************************)
(* Frame decoding                                                          *)
(***************************************************************************)
\* (frame[hi] << 8) | frame[lo]
Word(frame, lo, hi) == frame[hi + 1] * 256 + frame[lo + 1]

\* The fields every variant reads from a data frame.
Fields(frame) ==
    [state |-> frame[8 + 1],
     move_dist |-> Word(frame, 9, 10),
     move_energy |-> frame[11 + 1],
     still_dist |-> Word(frame, 12, 13),
     still_energy |-> frame[14 + 1],
     detect_dist |-> Word(frame, 15, 16)]

\* light_value = 0; if len(frame) >= 21: light_value = frame[17]
LightValue(frame) == IF Len(frame) >= 21 THEN frame[17 + 1] ELSE 0

\* if len(frame) < 23: return
TooShort(frame) == Len(frame) < MIN_FRAME_LEN

\* every variant stamps the wall-clock time elapsed
CurrentTimeWallClock(v, c, now) == now - c.stats.start_time

\* current_time of the record about to be stored
CurrentTime(v, c, now) ==
    IF v = "analyzer" THEN Len(c.data_history.time)     \* len(time) * 0.1, in tenths
    ELSE now - c.stats.start_time                       \* time.time() - start_time

\* the appends to self.data_history
PushHistory(v, h, f, light, t) ==
    LET n == Capacity(v) IN
    [time |-> DequeAppend(h.time, t, n),
     moving_distance |-> DequeAppend(h.moving_distance, f.move_dist, n),
     moving_energy |-> DequeAppend(h.moving_energy, f.move_energy, n),
     still_distance |-> DequeAppend(h.still_distance, f.still_dist, n),
     still_energy |-> DequeAppend(h.still_energy, f.still_energy, n),
     detection_distance |-> DequeAppend(h.detection_distance, f.detect_dist, n),
     target_state |-> DequeAppend(h.target_state, f.state, n),
     light_value |-> IF v = "analyzer" THEN h.light_value
                     ELSE DequeAppend(h.light_value, light, n)]

\* the detection counters: bit1/bit2 are looked at only when bit0 is set
CountDetections(st, state) ==
    IF Bit0(state)
    THEN [st EXCEPT !.moving_detections = @ + (IF Bit1(state) THEN 1 ELSE 0),
                    !.still_detections = @ + (IF Bit2(state) THEN 1 ELSE 0)]
    ELSE [st EXCEPT !.no_target = @ + 1]

\* max_distance / min_distance; the enhanced variant replaces the unset
\* sentinel by the first positive distance instead of taking the minimum
DistanceRange(v, st, d) ==
    IF d > 0
    THEN [st EXCEPT !.max_distance = MaxOf(@, d),
                    !.min_distance = IF v = "enhanced" /\ @ = UNSET_MIN_DISTANCE
                                     THEN d ELSE MinOf(@, d)]
    ELSE st

\* the statistics update with averages accumulated over every record ever
\* pushed instead of recomputed over the history
UpdateStatisticsCumulative(v, st, h, f, now) ==
    LET counted == DistanceRange(v, CountDetections([st EXCEPT !.total_frames = @ + 1], f.state),
                                 f.detect_dist)
    IN  IF v = "enhanced"
        THEN [counted EXCEPT
                !.avg_moving_energy = [sum |-> IF st.total_frames = 0 THEN f.move_energy
                                               ELSE @.sum + f.move_energy,
                                       n |-> st.total_frames + 1],
                !.avg_still_energy = [sum |-> IF st.total_frames = 0 THEN f.still_energy
                                              ELSE @.sum + f.still_energy,
                                      n |-> st.total_frames + 1],
                !.last_update = now]
        ELSE IF v = "analyzer_cli"
        THEN [counted EXCEPT !.max_moving_energy = MaxOf(@, f.move_energy),
                             !.max_still_energy = MaxOf(@, f.still_energy)]
        ELSE counted

\* the statistics update of one record (h is the history after the appends)
UpdateStatistics(v, st, h, f, now) ==
    LET counted == DistanceRange(v, CountDetections([st EXCEPT !.total_frames = @ + 1], f.state),
                                 f.detect_dist)
    IN  IF v = "enhanced"
        THEN [counted EXCEPT
                !.avg_moving_energy = IF Len(h.moving_energy) > 0
                                      THEN [sum |-> SumSeq(h.moving_energy), n |-> Len(h.moving_energy)]
                                      ELSE @,
                !.avg_still_energy = IF Len(h.moving_energy) > 0
                                     THEN [sum |-> SumSeq(h.still_energy), n |-> Len(h.still_energy)]
                                     ELSE @,
                !.last_update = now]
        ELSE IF v = "analyzer_cli"
        THEN [counted EXCEPT !.max_moving_energy = MaxOf(@, f.move_energy),
                             !.max_still_energy = MaxOf(@, f.still_energy)]
        ELSE counted

\* number of values that differ from the first one
ChangesFromFirst(s) == Cardinality({k \in 2..Len(s) : s[k] # s[1]})

\* number of adjacent differing values
RECURSIVE Changes(_)
Changes(s) == IF Len(s) < 2 THEN 0
              ELSE (IF s[1] # s[2] THEN 1 ELSE 0) + Changes(Tail(s))

\* LD2412Analyzer.analyze_patterns (reads the history after the appends)
AnalyzePatterns(p, h) ==
    IF Len(h.detection_distance) < 10 THEN p
    ELSE LET recent_distances == LastN(h.detection_distance, 10)
             recent_states == LastN(h.target_state, 10)
             distance_diff == recent_distances[10] - recent_distances[1]
             trended ==
                 IF \A k \in 1..10 : recent_distances[k] > 0
                 THEN IF distance_diff < -50 THEN [p EXCEPT !.approach = @ + 1]
                      ELSE IF distance_diff > 50 THEN [p EXCEPT !.leave = @ + 1]
                      ELSE [p EXCEPT !.stable = @ + 1]
                 ELSE p
         IN  IF Changes(recent_states) > 5 THEN [trended EXCEPT !.noise = @ + 1]
             ELSE trended

\* EnhancedLD2412GUI.analyze_behavior
AnalyzeBehaviorEnhanced(p, state, distance) ==
    LET p1 == [p EXCEPT !.state_changes = DequeAppend(@, state, 20)]
        p2 == IF distance > 0
              THEN LET ld == DequeAppend(p1.last_distances, distance, 10)
                       recent == LastN(ld, 5)
                       trend == recent[Len(recent)] - recent[1]
                       q == [p1 EXCEPT !.last_distances = ld]
                   IN  IF Len(ld) >= 5
                       THEN IF trend < -50 THEN [q EXCEPT !.approach = @ + 1]
                            ELSE IF trend > 50 THEN [q EXCEPT !.leave = @ + 1]
                            ELSE IF trend < 20 /\ trend > -20 THEN [q EXCEPT !.stable = @ + 1]
                            ELSE q
                       ELSE q
              ELSE p1
    IN  IF Len(p2.state_changes) >= 10 /\ Changes(LastN(p2.state_changes, 10)) > 6
        THEN [p2 EXCEPT !.noise = @ + 1]
        ELSE p2

\* LD2412AnalyzerCLI.analyze_behavior; avg_change = (recent[-1] - recent[0]) / 2,
\* so avg_change < -30 iff the difference is below -60
AnalyzeBehaviorCli(p, distance) ==
    IF distance > 0
    THEN LET dt == LET a == Append(p.last_distances, distance)
                   IN IF Len(a) > 10 THEN Tail(a) ELSE a
             recent == LastN(dt, 3)
             diff == recent[Len(recent)] - recent[1]
             q == [p EXCEPT !.last_distances = dt, !.last_distance = distance]
         IN  IF Len(dt) >= 3
             THEN IF diff < -60 THEN [q EXCEPT !.approach = @ + 1]
                  ELSE IF diff > 60 THEN [q EXCEPT !.leave = @ + 1]
                  ELSE [q EXCEPT !.stable = @ + 1]
             ELSE q
    ELSE p

\* the alerts of one record, the rapid approach measured against the
\* sample just before the last one
FrameAlertsAdjacent(v, f, p) ==
    IF v = "analyzer"
    THEN IF Bit0(f.state)
         THEN IF f.move_energy > 80 THEN <<"high_moving_energy">>
              ELSE IF f.still_energy > 80 THEN <<"high_still_energy">>
              ELSE <<>>
         ELSE <<>>
    ELSE (IF 0 < f.detect_dist /\ f.detect_dist < 50 THEN <<"near_range">> ELSE <<>>)
         \o (IF f.move_energy > 80 THEN <<"high_moving_energy">> ELSE <<>>)
         \o (IF f.still_energy > 80 THEN <<"high_still_energy">> ELSE <<>>)
         \o (IF v = "enhanced"
             THEN IF f.state > 7 THEN <<"abnormal_state">> ELSE <<>>
             ELSE LET t == p.last_distances
                  IN IF Len(t) >= 3 /\ t[Len(t)] < t[Len(t) - 1] - 50
                     THEN <<"rapid_approach">> ELSE <<>>)

\* the alerts one record raises, in the order the code raises them
FrameAlerts(v, f, p) ==
    IF v = "analyzer"
    THEN IF Bit0(f.state)
         THEN IF f.move_energy > 80 THEN <<"high_moving_energy">>
              ELSE IF f.still_energy > 80 THEN <<"high_still_energy">>
              ELSE <<>>
         ELSE <<>>
    ELSE (IF 0 < f.detect_dist /\ f.detect_dist < 50 THEN <<"near_range">> ELSE <<>>)
         \o (IF f.move_energy > 80 THEN <<"high_moving_energy">> ELSE <<>>)
         \o (IF f.still_energy > 80 THEN <<"high_still_energy">> ELSE <<>>)
         \o (IF v = "enhanced"
             THEN IF f.state > 7 THEN <<"abnormal_state">> ELSE <<>>
             ELSE LET t == p.last_distances
                  IN IF Len(t) >= 3 /\ t[Len(t)] < t[Len(t) - 2] - 50
                     THEN <<"rapid_approach">> ELSE <<>>)

AlertMsgs(as) == [k \in 1..Len(as) |-> [type |-> "alert", data |-> as[k]]]

\* parse_and_analyze_frame / parse_frame_enhanced / parse_data_frame:
\* the whole handler of one located frame, on core instance c
ParseFrame(v, c, frame, now) ==
    IF TooShort(frame) THEN c
    ELSE LET f == Fields(frame)
             light == LightValue(frame)
             h == PushHistory(v, c.data_history, f, light, CurrentTime(v, c, now))
             st == UpdateStatistics(v, c.stats, h, f, now)
             p == IF v = "analyzer" THEN AnalyzePatterns(c.patterns, h)
                  ELSE IF v = "enhanced"
                  THEN AnalyzeBehaviorEnhanced(c.patterns, f.state, f.detect_dist)
                  ELSE AnalyzeBehaviorCli(c.patterns, f.detect_dist)
             as == FrameAlerts(v, f, p)
             rec == [state |-> f.state, move_dist |-> f.move_dist,
                     move_energy |-> f.move_energy, still_dist |-> f.still_dist,
                     still_energy |-> f.still_energy, detect_dist |-> f.detect_dist,
                     light |-> light]
         IN  [c EXCEPT !.data_history = h, !.stats = st, !.patterns = p,
                       !.alerts = as,
                       !.current_data =
                           IF v = "enhanced"
                           THEN [state |-> f.state, move_dist |-> f.move_dist,
                                 move_energy |-> f.move_energy, still_dist |-> f.still_dist,
                                 still_energy |-> f.still_energy, detect_dist |-> f.detect_dist,
                                 light |-> light, frame_len |-> Len(frame),
                                 data_type |-> frame[6 + 1]]
                           ELSE @,
                       !.out = IF v = "analyzer_cli"
                               THEN @ \o AlertMsgs(as) \o <<[type |-> "data", data |-> rec]>>
                               ELSE @]

(***************************************************************************)
(* Frame scanning                                                          *)
(***************************************************************************)
\* buffer[i:i+4] == b'\xF4\xF3\xF2\xF1'
HeaderAt(buf, i) == Slice(buf, i, i + 4) = DATA_HEADER
\* buffer[j:j+4] == b'\xF8\xF7\xF6\xF5'
FooterAt(buf, j) == Slice(buf, j, j + 4) = DATA_FOOTER

\* the stop of range(i + 8, ...) in the footer search
FooterStop(v, buf, i) ==
    IF BoundedWindow(v) THEN MinOf(i + FOOTER_WINDOW, Len(buf) - 3) ELSE Len(buf) - 3

\* the footer search for a header at i: end_pos, or -1
FindFooter(v, buf, i) ==
    LET js == {j \in (i + 8)..(FooterStop(v, buf, i) - 1) : FooterAt(buf, j)}
    IN  IF js = {} THEN -1 ELSE Min(js) + 4

\* The while loop of analyze_frames / analyze_data from cursor i.  The
\* iterations that find no header only add one to i, so the loop is entered
\* again at the next header position.
RECURSIVE ScanFrom(_, _, _, _, _)
ScanFrom(v, c, buf, i, now) ==
    LET hs == {p \in i..(Len(buf) - 8) : HeaderAt(buf, p)}
    IN  IF hs = {} THEN c
        ELSE LET h == Min(hs)
                 end_pos == FindFooter(v, buf, h)
             IN  IF end_pos # -1
                 THEN ScanFrom(v, ParseFrame(v, c, Slice(buf, h, end_pos), now), buf, end_pos, now)
                 ELSE ScanFrom(v, c, buf, h + 1, now)

\* the cut is made on the local snapshot and never stored back
TruncateDiscarded(v, buf) == buf

\* if len(self.raw_buffer) > H: self.raw_buffer = self.raw_buffer[-L:]
Truncate(v, buf) == IF Len(buf) > HighWater(v) THEN LastN(buf, LowWater(v)) ELSE buf

\* analyze_frames / analyze_data: scan a snapshot of the buffer, then truncate
AnalyzeFrames(v, c, now) ==
    LET scanned == ScanFrom(v, c, c.raw_buffer, 0, now)
    IN  [scanned EXCEPT !.raw_buffer = Truncate(v, @)]

\* process_received_data / process_data: self.raw_buffer.extend(data), then scan
ProcessReceivedData(v, c, data, now) ==
    AnalyzeFrames(v, [c EXCEPT !.raw_buffer = @ \o data, !.out = <<>>], now)

\* a reset that leaves the statistics as they are
ClearCoreKeepsStats(v, c, now) ==
    [c EXCEPT !.data_history = InitHistory,
              !.patterns = InitPatterns,
              !.current_data = "None"]

\* clear_data
ClearCore(v, c, now) ==
    [c EXCEPT !.data_history = InitHistory,
              !.stats = NewStats(v, now),
              !.patterns = InitPatterns,
              !.current_data = "None"]

(***************************************************************************)
(* The bytes the serial link delivers.  A chunk is named by a record and   *)
(* Bytes gives its content; queues and histories hold the names.           *)
(***************************************************************************)
\* the frame of test_frame_parsing: state 0x03, 120 cm / 85, 150 cm / 64, 120 cm, light 16
TestFrame ==
    DATA_HEADER \o <<11, 0, 2, 170, 3, 120, 0, 85, 150, 0, 64, 120, 0, 16>> \o DATA_FOOTER

\* a 23-byte frame: state 0x05, 300 cm / 30, 200 cm / 90, 200 cm, light 32
Frame23 ==
    DATA_HEADER \o <<12, 0, 2, 170, 5, 44, 1, 30, 200, 0, 90, 200, 0, 32, 1>> \o DATA_FOOTER

Zeros(n) == [k \in 1..n |-> 0]

\* as many bytes as the analyzer's buffer may hold without being cut
BrimLen == 1000

\* a data header followed by 100 bytes that hold no footer
FalseHeader == DATA_HEADER \o Zeros(100)

\* a header magic with no footer of its own, four bytes, then a whole frame:
\* the frame's footer lies 27 bytes after the lone header
HeaderThenFrame == DATA_HEADER \o Zeros(4) \o Frame23

\* the query command of the protocol: no payload
Cmd12 == <<253, 252, 251, 250, 2, 0, 18, 0, 4, 3, 2, 1>>

\* the acknowledgement of "enter configuration mode": six payload bytes after offset 8
CmdAck == <<253, 252, 251, 250, 8, 0, 255, 1, 0, 0, 1, 0, 64, 0, 4, 3, 2, 1>>

\* a 21-byte frame: state 0x01, 260 cm / 40, 70 cm / 20, 515 cm, no light byte
Frame21 ==
    DATA_HEADER \o <<9, 0, 2, 170, 1, 4, 1, 40, 70, 0, 20, 3, 2>> \o DATA_FOOTER

\* a 20-byte span: the footer starts where the high byte of the last distance would be
Frame20 ==
    DATA_HEADER \o <<8, 0, 2, 170, 1, 4, 1, 40, 70, 0, 20, 3>> \o DATA_FOOTER

\* a 46-byte frame: the fields of Frame23, then 23 gate energies
Frame46 ==
    DATA_HEADER \o <<35, 0, 1, 170, 5, 44, 1, 30, 200, 0, 90, 200, 0, 32, 1>>
                \o [k \in 1..23 |-> 7] \o DATA_FOOTER

FrameNames == {"test22", "frame23"}
WholeNames ==
    FrameNames \cup {"false_header", "garbage", "noise", "frame21", "frame20",
                      "header_then_frame"}

Body(name) ==
    CASE name = "test22" -> TestFrame
      [] name = "frame23" -> Frame23
      [] name = "false_header" -> FalseHeader
      [] name = "garbage" -> Zeros(GarbageLen)
      [] name = "noise" -> <<0>>
      [] name = "frame21" -> Frame21
      [] name = "frame20" -> Frame20
      [] name = "frame46" -> Frame46
      [] name = "cmd12" -> Cmd12
      [] name = "cmd_ack" -> CmdAck
      [] name = "short_then_frame" -> Frame20 \o Frame23
      [] name = "cmd_then_frame" -> Cmd12 \o Frame23
      [] name = "header_then_frame" -> HeaderThenFrame
      [] name = "brim" -> Zeros(BrimLen)

Whole(name) == [part |-> "whole", name |-> name, k |-> 0]

\* the reader thread's local `data` while it holds no chunk (before the first
\* read and after a chunk was handed on)
NoData == Whole("None")
HeadOf(name, k) == [part |-> "head", name |-> name, k |-> k]
TailOf(name, k) == [part |-> "tail", name |-> name, k |-> k]

Bytes(ch) ==
    CASE ch.part = "whole" -> Body(ch.name)
      [] ch.part = "head" -> SubSeq(Body(ch.name), 1, ch.k)
      [] ch.part = "tail" -> SubSeq(Body(ch.name), ch.k + 1, Len(Body(ch.name)))

BytesOf(chunks) == Flatten([k \in 1..Len(chunks) |-> Bytes(chunks[k])])

SeqsUpTo(S, n) == UNION {[1..k -> S] : k \in 0..n}

\* a frame cut in two at every inner index
SplitTapes ==
    {<<HeadOf(f, k), TailOf(f, k)>> : f \in FrameNames, k \in 1..22} \ 
    {<<HeadOf("test22", 22), TailOf("test22", 22)>>}

\* a run of header-free garbage chunks
GarbageRun(g) == [j \in 1..g |-> Whole("garbage")]

\* a frame in one chunk or cut in two at any inner index
ChunkingsOf(f) ==
    {<<Whole(f)>>} \cup {<<HeadOf(f, k), TailOf(f, k)>> : k \in 1..(Len(Body(f)) - 1)}

\* garbage past the truncation threshold, then a frame in any chunking
GarbageTapes ==
    {GarbageRun(g) \o t : g \in 1..MaxGarbage, t \in UNION {ChunkingsOf(f) : f \in FrameNames}}

\* feeds that fill the buffer to the threshold exactly, and one byte more
BrimTapes ==
    {<<Whole("brim"), Whole("noise")>>, <<Whole("brim"), Whole("brim"), Whole("noise")>>}

CoreTapes ==
    SeqsUpTo({Whole(n) : n \in WholeNames}, MaxFeeds) \cup SplitTapes \cup GarbageTapes
        \cup BrimTapes

(***************************************************************************)
(* The running instance as one record, and back                            *)
(***************************************************************************)
Core ==
    [raw_buffer |-> raw_buffer, data_history |-> data_history, stats |-> stats,
     patterns |-> patterns, current_data |-> current_data, alerts |-> alerts,
     out |-> <<>>]

SetCore(c) ==
    /\ raw_buffer' = c.raw_buffer
    /\ data_history' = c.data_history
    /\ stats' = c.stats
    /\ patterns' = c.patterns
    /\ current_data' = c.current_data
    /\ alerts' = c.alerts
    /\ UNCHANGED printed

\* the history of calls made on the core: the chunks appended and the resets
ClearMark == [part |-> "clear", name |-> "", k |-> 0]
IsChunk(c) == c.part \in {"whole", "head", "tail"}
IsClear(c) == c.part = "clear"
Appended == SelectSeq(calls, IsChunk)
Clears == Len(SelectSeq(calls, IsClear))

\* the state after construction (__init__)
InitCommon ==
    /\ variant \in Variants
    /\ raw_buffer = <<>>
    /\ data_history = InitHistory
    /\ stats = NewStats(variant, 0)
    /\ patterns = InitPatterns
    /\ current_data = "None"
    /\ alerts = <<>>
    /\ printed = <<>>
    /\ data_queue = <<>>
    /\ serial_port = "None"
    /\ is_connected = FALSE
    /\ is_monitoring = FALSE
    /\ reader_pc = IF variant = "analyzer_cli" THEN "not_started" ELSE "check"
    /\ reader_data = NoData
    /\ ui_pc = "idle"
    /\ iteration_monitoring = FALSE
    /\ clock = 0
    /\ read_chunks = <<>>
    /\ calls = <<>>
    /\ twin = [core |-> NewCore(variant, 0), fed |-> 0]

\* time passes; every time.time() of one handler call returns the clock value
Tick ==
    /\ clock < MaxClock
    /\ clock' = clock + 1
    /\ UNCHANGED <<variant, transport, coreVars, threadVars, read_chunks, calls, twin>>

(***************************************************************************)
(* The core alone: feed(chunk) and reset, called one after the other       *)
(***************************************************************************)
InitCore == InitCommon /\ transport \in CoreTapes

\* process_received_data(data) / process_data(data) with the next chunk
Feed ==
    /\ transport # <<>>
    /\ SetCore(ProcessReceivedData(variant, Core, Bytes(Head(transport)), clock))
    /\ transport' = Tail(transport)
    /\ read_chunks' = Append(read_chunks, Head(transport))
    /\ calls' = Append(calls, Head(transport))
    /\ UNCHANGED <<variant, threadVars, clock, twin>>

\* clear_data()
ClearData ==
    /\ Clears < MaxClears
    /\ SetCore(ClearCore(variant, Core, clock))
    /\ calls' = Append(calls, ClearMark)
    /\ UNCHANGED <<variant, transport, threadVars, clock, read_chunks, twin>>

NextCore == Feed \/ ClearData \/ Tick

SpecCore == InitCore /\ [][NextCore]_vars

(***************************************************************************)
(* Two independent instances fed the same chunks, each at its own times    *)
(***************************************************************************)
\* everything the link delivers: what was read already, then what is left
Tape == read_chunks \o transport

InitTwin == InitCommon /\ transport \in CoreTapes

\* process_received_data(data) / process_data(data) on the second instance
TwinFeed ==
    /\ twin.fed < Len(Tape)
    /\ twin' = [core |-> ProcessReceivedData(variant, twin.core,
                                             Bytes(Tape[twin.fed + 1]), clock),
                fed |-> twin.fed + 1]
    /\ UNCHANGED <<variant, transport, coreVars, threadVars, clock, read_chunks, calls>>

NextTwin == Feed \/ TwinFeed \/ Tick

SpecTwin == InitTwin /\ [][NextTwin]_vars

(***************************************************************************)
(* The reader thread and the UI / main loop                                *)
(***************************************************************************)
MaxReads == 2
MaxErrors == 1

ReaderTapes == SeqsUpTo({Whole(n) : n \in {"frame23", "noise"}}, MaxReads)

DataMsg(chunk) == [type |-> "data", data |-> chunk]
\* ('error', str(e)) for the exception a closed port raises
ErrorMsg == [type |-> "error", data |-> "port_closed"]
IsError(m) == m.type = "error"
PendingErrors == Len(SelectSeq(data_queue, IsError))

\* the reader goes on whatever the monitoring flag says
MayReadUnconditional == is_connected /\ serial_port # "None"

\* self.is_connected and self.serial_port and self.is_monitoring
MayRead == is_connected /\ serial_port # "None" /\ is_monitoring

\* top of a reader iteration: `while True:` and the if (analyzer, enhanced);
\* `while self.is_monitoring:` and the if (analyzer_cli, whose thread ends
\* when the flag is found cleared)
ReaderCheck ==
    /\ reader_pc = "check"
    /\ iteration_monitoring' = is_monitoring
    /\ reader_pc' = IF variant = "analyzer_cli" /\ ~is_monitoring THEN "exited"
                    ELSE IF MayRead THEN "in_waiting" ELSE "sleep"
    /\ UNCHANGED <<variant, transport, coreVars, data_queue, serial_port, is_connected,
                   is_monitoring, reader_data, ui_pc, clock, read_chunks, calls, twin>>

\* the exception is not caught and ends the thread
ReaderDies ==
    /\ reader_pc' = "dead"
    /\ UNCHANGED <<variant, transport, coreVars, data_queue, serial_port, is_connected,
                   is_monitoring, reader_data, ui_pc, iteration_monitoring, clock,
                   read_chunks, calls, twin>>

\* except Exception as e: self.data_queue.put(('error', str(e)))
ReaderRaises ==
    /\ data_queue' = Append(data_queue, ErrorMsg)
    /\ reader_pc' = "sleep"
    /\ UNCHANGED <<variant, transport, coreVars, serial_port, is_connected, is_monitoring,
                   reader_data, ui_pc, iteration_monitoring, clock, read_chunks, calls, twin>>

\* if self.serial_port.in_waiting: bytes may be waiting or not; a port closed
\* since the check raises
ReaderInWaiting ==
    /\ reader_pc = "in_waiting"
    /\ IF serial_port = "closed" THEN ReaderRaises
       ELSE /\ \/ transport # <<>> /\ reader_pc' = "read"
               \/ reader_pc' = "sleep"
            /\ UNCHANGED <<variant, transport, coreVars, data_queue, serial_port,
                           is_connected, is_monitoring, reader_data, ui_pc,
                           iteration_monitoring, clock, read_chunks, calls, twin>>

\* data = self.serial_port.read(self.serial_port.in_waiting)
ReaderRead ==
    /\ reader_pc = "read"
    /\ IF serial_port = "closed" THEN ReaderRaises
       ELSE /\ reader_data' = Head(transport)
            /\ transport' = Tail(transport)
            /\ read_chunks' = Append(read_chunks, Head(transport))
            /\ reader_pc' = IF UsesQueue(variant) THEN "put" ELSE "extend"
            /\ UNCHANGED <<variant, coreVars, data_queue, serial_port, is_connected,
                           is_monitoring, ui_pc, iteration_monitoring, clock, calls, twin>>

\* self.data_queue.put(('data', data))
ReaderPut ==
    /\ reader_pc = "put"
    /\ data_queue' = Append(data_queue, DataMsg(reader_data))
    /\ reader_data' = NoData
    /\ reader_pc' = "sleep"
    /\ UNCHANGED <<variant, transport, coreVars, serial_port, is_connected, is_monitoring,
                   ui_pc, iteration_monitoring, clock, read_chunks, calls, twin>>

\* analyzer_cli, in the reader thread: self.raw_buffer.extend(data)
ReaderExtend ==
    /\ reader_pc = "extend"
    /\ raw_buffer' = raw_buffer \o Bytes(reader_data)
    /\ calls' = Append(calls, reader_data)
    /\ reader_data' = NoData
    /\ reader_pc' = "analyze"
    /\ UNCHANGED <<variant, transport, data_history, stats, patterns, current_data, alerts,
                   printed, data_queue, serial_port, is_connected, is_monitoring, ui_pc,
                   iteration_monitoring, clock, read_chunks, twin>>

\* analyzer_cli, in the reader thread: self.analyze_frames(), which puts the
\* decoded records and the alerts on data_queue
ReaderAnalyze ==
    /\ reader_pc = "analyze"
    /\ LET c == AnalyzeFrames(variant, Core, clock)
       IN  SetCore(c) /\ data_queue' = data_queue \o c.out
    /\ reader_pc' = "sleep"
    /\ UNCHANGED <<variant, transport, serial_port, is_connected, is_monitoring,
                   reader_data, ui_pc, iteration_monitoring, clock, read_chunks, calls, twin>>

\* time.sleep(0.01), then the next iteration
ReaderSleep ==
    /\ reader_pc = "sleep"
    /\ reader_pc' = "check"
    /\ UNCHANGED <<variant, transport, coreVars, data_queue, serial_port, is_connected,
                   is_monitoring, reader_data, ui_pc, iteration_monitoring, clock,
                   read_chunks, calls, twin>>

Reader ==
    \/ ReaderCheck \/ ReaderInWaiting \/ ReaderRead \/ ReaderPut
    \/ ReaderExtend \/ ReaderAnalyze \/ ReaderSleep

\* the newest message first
QueueGetNewest(q) == [item |-> q[Len(q)], rest |-> SubSeq(q, 1, Len(q) - 1)]

\* queue.Queue.get_nowait(): the oldest message
QueueGet(q) == [item |-> Head(q), rest |-> Tail(q)]

\* update_ui / update_display: one turn of `while not self.data_queue.empty()`
\* that finds a message; a data message is handed to process_received_data
UpdateUiGet ==
    /\ UsesQueue(variant)
    /\ ui_pc \in {"idle", "drain"}
    /\ data_queue # <<>>
    /\ LET got == QueueGet(data_queue)
       IN  /\ data_queue' = got.rest
           /\ IF got.item.type = "data"
              THEN /\ SetCore(ProcessReceivedData(variant, Core, Bytes(got.item.data), clock))
                   /\ calls' = Append(calls, got.item.data)
              ELSE UNCHANGED <<coreVars, calls>>
    /\ ui_pc' = "drain"
    /\ UNCHANGED <<variant, transport, serial_port, is_connected, is_monitoring, reader_pc,
                   reader_data, iteration_monitoring, clock, read_chunks, twin>>

\* the callback returns without arming its timer again
UpdateUiNotRearmed ==
    /\ ui_pc = "drain"
    /\ data_queue = <<>>
    /\ ui_pc' = "stopped"
    /\ UNCHANGED <<variant, transport, coreVars, data_queue, serial_port, is_connected,
                   is_monitoring, reader_pc, reader_data, iteration_monitoring, clock,
                   read_chunks, calls, twin>>

\* update_ui / update_display: the queue is found empty and the callback returns
UpdateUiDone ==
    /\ ui_pc = "drain"
    /\ data_queue = <<>>
    /\ ui_pc' = "idle"
    /\ UNCHANGED <<variant, transport, coreVars, data_queue, serial_port, is_connected,
                   is_monitoring, reader_pc, reader_data, iteration_monitoring, clock,
                   read_chunks, calls, twin>>

\* toggle_connection; a disconnect closes the port and clears both flags
ToggleConnection ==
    /\ UsesQueue(variant)
    /\ ui_pc = "idle"
    /\ IF ~is_connected
       THEN /\ serial_port' = "open"
            /\ is_connected' = TRUE
            /\ UNCHANGED is_monitoring
       ELSE /\ PendingErrors < MaxErrors
            /\ serial_port' = "closed"
            /\ is_connected' = FALSE
            /\ is_monitoring' = FALSE
    /\ UNCHANGED <<variant, transport, coreVars, data_queue, reader_pc, reader_data, ui_pc,
                   iteration_monitoring, clock, read_chunks, calls, twin>>

\* toggle_monitoring; returns at once when not connected
ToggleMonitoring ==
    /\ UsesQueue(variant)
    /\ ui_pc = "idle"
    /\ is_connected
    /\ is_monitoring' = ~is_monitoring
    /\ UNCHANGED <<variant, transport, coreVars, data_queue, serial_port, is_connected,
                   reader_pc, reader_data, ui_pc, iteration_monitoring, clock,
                   read_chunks, calls, twin>>

\* clear_data as a button callback (analyzer, enhanced) or on key 'c' in the
\* main loop of LD2412AnalyzerCLI.run
UiClearData ==
    /\ ui_pc = (IF UsesQueue(variant) THEN "idle" ELSE "loop")
    /\ ClearData

\* LD2412AnalyzerCLI.run up to the main loop: connect, set the flag, start
\* the reader thread
CliRun ==
    /\ variant = "analyzer_cli"
    /\ ui_pc = "idle"
    /\ serial_port' = "open"
    /\ is_connected' = TRUE
    /\ is_monitoring' = TRUE
    /\ reader_pc' = "check"
    /\ ui_pc' = "loop"
    /\ UNCHANGED <<variant, transport, coreVars, data_queue, reader_data,
                   iteration_monitoring, clock, read_chunks, calls, twin>>

\* LD2412AnalyzerCLI.run: the main loop takes a message off the queue (and
\* prints it when it is an alert)
CliGet ==
    /\ variant = "analyzer_cli"
    /\ ui_pc = "loop"
    /\ data_queue # <<>>
    /\ data_queue' = QueueGet(data_queue).rest
    /\ UNCHANGED <<variant, transport, coreVars, serial_port, is_connected, is_monitoring,
                   reader_pc, reader_data, ui_pc, iteration_monitoring, clock,
                   read_chunks, calls, twin>>

\* LD2412AnalyzerCLI.run, finally: is_monitoring = False; disconnect()
CliQuit ==
    /\ variant = "analyzer_cli"
    /\ ui_pc = "loop"
    /\ is_monitoring' = FALSE
    /\ serial_port' = "closed"
    /\ is_connected' = FALSE
    /\ ui_pc' = "exited"
    /\ UNCHANGED <<variant, transport, coreVars, data_queue, reader_pc, reader_data,
                   iteration_monitoring, clock, read_chunks, calls, twin>>

Ui ==
    \/ UpdateUiGet \/ UpdateUiDone \/ ToggleConnection \/ ToggleMonitoring
    \/ UiClearData \/ CliRun \/ CliGet \/ CliQuit

Init == InitCommon /\ transport \in ReaderTapes

Next == Reader \/ Ui \/ Tick

Spec == Init /\ [][Next]_vars

(***************************************************************************)
(* Properties of the core                                                  *)
(***************************************************************************)
NoReset == Clears = 0

\* the telemetry records held by the history, oldest first
Records(h) ==
    [k \in 1..Len(h.target_state) |->
        [state |-> h.target_state[k], move_dist |-> h.moving_distance[k],
         move_energy |-> h.moving_energy[k], still_dist |-> h.still_distance[k],
         still_energy |-> h.still_energy[k], detect_dist |-> h.detection_distance[k]]]

TestFrameRecord ==
    [state |-> 3, move_dist |-> 120, move_energy |-> 85, still_dist |-> 150,
     still_energy |-> 64, detect_dist |-> 120]

Frame23Record ==
    [state |-> 5, move_dist |-> 300, move_energy |-> 30, still_dist |-> 200,
     still_energy |-> 90, detect_dist |-> 200]

\* C1: once the 22-byte frame F4 F3 F2 F1 0B 00 02 AA 03 78 00 55 96 00 40
\* 78 00 10 F8 F7 F6 F5 has been fed to a fresh core, the history holds
\* exactly one record, with targetState 3, moving 120 cm / 85, still
\* 150 cm / 64, detection 120 cm and ambient light 16, and one frame is counted.
C1_ExactDecode ==
    (Appended = <<Whole("test22")>> /\ NoReset) =>
        /\ stats.total_frames = 1
        /\ Records(data_history) = <<TestFrameRecord>>
        /\ variant # "analyzer" => data_history.light_value = <<16>>

\* what one call with the whole frame makes of a fresh core
SingleCall(v, f, now) == ProcessReceivedData(v, NewCore(v, 0), Body(f), now)

\* C2: for every frame and every split index k, feeding bytes [0..k) and then
\* bytes [k..end) gives exactly one record, the one a single call gives.
C2_SplitFrameOneRecord ==
    \A f \in FrameNames : \A k \in 1..(Len(Body(f)) - 1) :
        (Appended = <<HeadOf(f, k), TailOf(f, k)>> /\ NoReset) =>
            /\ stats.total_frames = 1
            /\ Len(data_history.target_state) = 1
            /\ Records(data_history) = Records(SingleCall(variant, f, clock).data_history)

\* The frames a byte stream contains: the spans from a data header to the
\* first data footer that starts at least 8 and less than 50 bytes after
\* it, taken left to right without overlap.
RECURSIVE WellFormedFrames(_, _)
WellFormedFrames(bytes, i) ==
    LET hs == {p \in i..(Len(bytes) - 8) : HeaderAt(bytes, p)}
    IN  IF hs = {} THEN 0
        ELSE LET h == Min(hs)
                 js == {j \in (h + 8)..(MinOf(h + 50, Len(bytes) - 3) - 1) : FooterAt(bytes, j)}
             IN  IF js = {} THEN WellFormedFrames(bytes, h + 1)
                 ELSE 1 + WellFormedFrames(bytes, Min(js) + 4)

\* C3: the number of records decoded (the total-frame count) never exceeds
\* the number of well-formed frames in the bytes fed so far: a frame a scan
\* has emitted is not emitted again by a later scan.
C3_NoFrameDecodedTwice ==
    stats.total_frames <= WellFormedFrames(BytesOf(Appended), 0)

\* C4: a data header followed by 100 bytes without a footer gives no record,
\* and a well-formed frame appended afterwards (here the 23-byte frame, long
\* enough for every variant's length check) is decoded with its own fields.
C4_ResyncAfterFalseHeader ==
    /\ (Appended = <<Whole("false_header")>> /\ NoReset) => stats.total_frames = 0
    /\ (Appended = <<Whole("false_header"), Whole("frame23")>> /\ NoReset) =>
           Records(data_history) = <<Frame23Record>>

\* C5: after every completed feed call the buffer is no longer than the
\* variant's high-water mark (1000 bytes; 2000 in the enhanced variant).
C5_BufferBounded == Len(raw_buffer) <= HighWater(variant)

\* only bytes that never form a frame were fed, more of them than the
\* high-water mark, and the buffer was cut down
C5_Witness ==
    /\ Appended # <<>>
    /\ \A k \in 1..Len(Appended) : Appended[k] = Whole("garbage")
    /\ Len(BytesOf(Appended)) > HighWater(variant)
    /\ Len(raw_buffer) = LowWater(variant)

\* C6: right after a clear-data request the byte buffer, the history, the
\* statistics counters and the behaviour counters and windows all have
\* their initial values.
C6_ResetRestoresInitialState ==
    (calls # <<>> /\ IsClear(calls[Len(calls)])) =>
        /\ raw_buffer = <<>>
        /\ data_history = InitHistory
        /\ stats = NewStats(variant, stats.start_time)
        /\ patterns = InitPatterns

(***************************************************************************)
(* Properties of the hand-off between the reader and the consumer          *)
(***************************************************************************)
IsPrefix(a, b) == Len(a) <= Len(b) /\ SubSeq(b, 1, Len(a)) = a

\* the chunks the reader has put on the queue so far: all it has read, but
\* the one it still holds between read and put
Enqueued ==
    IF reader_pc = "put" THEN SubSeq(read_chunks, 1, Len(read_chunks) - 1)
    ELSE read_chunks

\* C7: in the queue-based front-ends, whatever the interleaving of reader
\* and consumer steps, the bytes the consumer has appended to the byte
\* buffer are a prefix of the bytes of the chunks the reader has enqueued:
\* chunks are appended in the order they were read.
C7_ChunksAppendedInArrivalOrder ==
    UsesQueue(variant) => IsPrefix(BytesOf(Appended), BytesOf(Enqueued))

\* the consumer has appended the first chunk while a second, different one
\* that was enqueued behind it is still waiting
C7_Witness ==
    /\ UsesQueue(variant)
    /\ Len(Appended) = 1
    /\ Len(Enqueued) = 2
    /\ Bytes(Enqueued[1]) # Bytes(Enqueued[2])
    /\ Len(data_queue) = 1
    /\ data_queue[1] = DataMsg(Enqueued[2])

\* C8: a step of the reader thread only writes the queue: it leaves the byte
\* buffer, the history, the statistics and the behaviour state unchanged.
C8_ProducerOnlyEnqueues ==
    [][(reader_pc # "not_started" /\ reader_pc' # reader_pc) => UNCHANGED coreVars]_vars

(***************************************************************************)
(* Properties of two instances                                             *)
(***************************************************************************)
\* the parts of an instance that hold no wall-clock reading
Untimed(c) ==
    [raw_buffer |-> c.raw_buffer,
     records |-> Records(c.data_history),
     light_value |-> c.data_history.light_value,
     stats |-> [c.stats EXCEPT !.start_time = 0, !.last_update = 0],
     patterns |-> c.patterns,
     current_data |-> c.current_data,
     alerts |-> c.alerts]

C10_NoReadWhileMonitoringCleared ==
    [][/\ (reader_pc = "check" /\ reader_pc' # reader_pc /\ ~is_monitoring) =>
              /\ reader_pc' \in {"sleep", "exited"}
              /\ UNCHANGED <<transport, read_chunks, data_queue, serial_port>>
       /\ (reader_pc # "not_started" /\ reader_pc' # reader_pc /\ ~iteration_monitoring') =>
              UNCHANGED <<transport, read_chunks, data_queue, serial_port>>
       /\ (transport' # transport) => iteration_monitoring
       /\ (is_monitoring /\ ~is_monitoring' /\ is_connected') =>
              serial_port' = serial_port]_vars

\* monitoring was on and a chunk was read; it was then switched off with
\* bytes still to come, and the reader's iteration found the flag cleared:
\* it is asleep, the port is open, nothing more was read
C10_Witness ==
    /\ read_chunks # <<>>
    /\ transport # <<>>
    /\ ~is_monitoring
    /\ ~iteration_monitoring
    /\ reader_pc = "sleep"
    /\ is_connected
    /\ serial_port = "open"

(***************************************************************************)
(* Properties of a read that fails on a closed port                        *)
(***************************************************************************)
\* the reader's step is the failure of in_waiting or read on a closed port
ReadFails ==
    /\ reader_pc \in {"in_waiting", "read"}
    /\ serial_port = "closed"
    /\ reader_pc' # reader_pc

\* the consumer's step takes a message of the given type off the queue
ConsumerTakes(type) ==
    /\ UsesQueue(variant)
    /\ data_queue # <<>>
    /\ Head(data_queue).type = type
    /\ data_queue' = Tail(data_queue)

\* C11: a read that fails because the port was closed, be it before the
\* in_waiting test or between it and the read, is absorbed: the reader goes
\* to its sleep and on to the next iteration, leaving an error message on
\* the queue; neither that step nor the consumer's handling of the message
\* changes the buffer, history, statistics or behaviour state, and the
\* consumer loop goes on; a chunk taken off the queue afterwards is
\* processed as process_received_data processes any chunk.
C11_FailedReadAbsorbed ==
    [][/\ ReadFails =>
              /\ reader_pc' = "sleep"
              /\ data_queue' = Append(data_queue, ErrorMsg)
              /\ UNCHANGED <<raw_buffer, data_history, stats, patterns, current_data, ui_pc>>
       /\ ConsumerTakes("error") =>
              /\ UNCHANGED <<raw_buffer, data_history, stats, patterns, current_data>>
              /\ ui_pc' = "drain"
       /\ ConsumerTakes("data") =>
              /\ ui_pc' = "drain"
              /\ LET c == ProcessReceivedData(variant, Core, Bytes(Head(data_queue).data), clock)
                 IN  /\ raw_buffer' = c.raw_buffer
                     /\ data_history' = c.data_history
                     /\ stats' = c.stats
                     /\ patterns' = c.patterns]_vars

\* a read failed on the closed port and left its error message on the
\* queue, the port was opened again, and the reader, still running, has
\* queued a chunk it read after the failure
C11_Witness ==
    /\ UsesQueue(variant)
    /\ \E p \in 1..Len(data_queue) : \E q \in (p + 1)..Len(data_queue) :
           data_queue[p] = ErrorMsg /\ data_queue[q] = DataMsg(Whole("frame23"))
    /\ serial_port = "open"
    /\ reader_pc \in {"check", "sleep", "in_waiting"}

(***************************************************************************)
(* Records handed to the frame handler one after the other                 *)
(***************************************************************************)
MaxRecords == 12
RecordEnergy == 50

\* the energies of a record: 50 unless the record names them
MoveEnergy(r) == IF "move_energy" \in DOMAIN r THEN r.move_energy ELSE RecordEnergy
StillEnergy(r) == IF "still_energy" \in DOMAIN r THEN r.still_energy ELSE RecordEnergy

\* the 23-byte frame the sensor sends for a record: target state, the
\* three distances (all set to dist), the two energies, tail 55 00
RecordFrame(r) ==
    DATA_HEADER
    \o <<13, 0, 2, 170, r.state,
         r.dist % 256, r.dist \div 256, MoveEnergy(r),
         r.dist % 256, r.dist \div 256, StillEnergy(r),
         r.dist % 256, r.dist \div 256, 85, 0>>
    \o DATA_FOOTER

Max(S) == CHOOSE x \in S : \A y \in S : x >= y

\* the elements of a set of numbers, largest first
RECURSIVE Descending(_)
Descending(S) == IF S = {} THEN <<>> ELSE <<Max(S)>> \o Descending(S \ {Max(S)})

Reverse(s) == [k \in 1..Len(s) |-> s[Len(s) + 1 - k]]

WithState(ds, state) == [k \in 1..Len(ds) |-> [state |-> state, dist |-> ds[k]]]

\* ten distances falling from 200 cm to 100 cm, and the same rising
Between == {101, 105, 110, 120, 130, 140, 150, 160, 170, 180, 190, 199}
Falling == {<<200>> \o Descending(S) \o <<100>> : S \in {T \in SUBSET Between : Cardinality(T) = 8}}
TrendTapes == {WithState(ds, 3) : ds \in Falling} \cup {WithState(Reverse(ds), 3) : ds \in Falling}

\* a first distance, a run of one distance, a last distance; 0 is "no detection"
Levels == {0, 90, 100, 130, 149, 150, 200}
RunTapes ==
    {WithState(<<a>> \o [k \in 1..(n - 2) |-> m] \o <<b>>, 1) :
        a \in Levels, m \in Levels, b \in Levels, n \in 10..MaxRecords}

\* some records of state 1, then ten records whose states alternate a, b
AlternatingTapes ==
    {[k \in 1..n |-> [state |-> IF k <= n - 10 THEN 1
                                ELSE IF (n - k) % 2 = 1 THEN a ELSE b,
                      dist |-> d]] :
        a \in {1, 3, 5}, b \in {1, 2, 5, 7}, d \in {0, 100}, n \in 10..MaxRecords}

\* one record of every target state
StateTapes == {<<[state |-> st, dist |-> d]>> : st \in 0..255, d \in {0, 100}}

\* more records than the history of the variant holds, each with its own
\* distance and energies
Overflow == 2
LongTapes(v) ==
    {[k \in 1..(Capacity(v) + Overflow) |->
        [state |-> 1, dist |-> 300 + k, move_energy |-> (7 * k) % 80,
         still_energy |-> (3 * k) % 80]]}

\* a few records whose distances lie at the ends of the 16-bit range and
\* around the value that marks the minimum as unset
RangeLen == 4
RangeLevels == {0, 40, 9999, 10000, 65535}
RangeTapes == {WithState(ds, 1) : ds \in SeqsUpTo(RangeLevels, RangeLen) \ {<<>>}}

\* one record on either side of every alert threshold, with and without a target
AlertTapes ==
    {<<[state |-> st, dist |-> d, move_energy |-> me, still_energy |-> se]>> :
        st \in {0, 1, 3}, d \in {0, 1, 49, 50}, me \in {80, 81}, se \in {80, 81}}

RecordTapes ==
    TrendTapes \cup RunTapes \cup AlternatingTapes \cup StateTapes \cup RangeTapes
    \cup AlertTapes

InitRecords == InitCommon /\ transport \in RecordTapes \cup LongTapes(variant)

\* parse_and_analyze_frame / parse_frame_enhanced / parse_data_frame with the
\* frame of the next record
ParseRecord ==
    /\ transport # <<>>
    /\ SetCore(ParseFrame(variant, Core, RecordFrame(Head(transport)), clock))
    /\ transport' = Tail(transport)
    /\ read_chunks' = Append(read_chunks, Head(transport))
    /\ UNCHANGED <<variant, threadVars, clock, calls, twin>>

NextRecords == ParseRecord

SpecRecords == InitRecords /\ [][NextRecords]_vars

(***************************************************************************)
(* Properties of the behaviour counters and the detection counters         *)
(***************************************************************************)
\* the records handed over so far are ten records whose distances fall
\* strictly from 200 to 100
FellFrom200To100 ==
    /\ Len(read_chunks) = 10
    /\ read_chunks[1].dist = 200
    /\ read_chunks[10].dist = 100
    /\ \A k \in 1..9 : read_chunks[k].dist > read_chunks[k + 1].dist

\* C12: after ten consecutive records whose detection distances are all
\* positive and fall strictly from 200 cm to 100 cm, the approach counter
\* is exactly 1 and the leave and stable counters are 0.
C12_FallingDistancesCountOneApproach ==
    FellFrom200To100 =>
        /\ patterns.approach = 1
        /\ patterns.leave = 0
        /\ patterns.stable = 0

\* the step hands one record to the frame handler
RecordParsed == transport' # transport /\ read_chunks' = Append(read_chunks, Head(transport))

\* the trailing distance window after the step: the last ten distances of
\* the history (analyzer), the window of positive distances (enhanced,
\* analyzer_cli)
DistanceWindowAfter ==
    IF variant = "analyzer" THEN LastN(data_history'.detection_distance, 10)
    ELSE patterns'.last_distances

\* the step updated a window that now holds ten positive distances
FullPositiveWindow ==
    /\ Len(DistanceWindowAfter) = 10
    /\ \A k \in 1..10 : DistanceWindowAfter[k] > 0
    /\ variant # "analyzer" => Head(transport).dist > 0

Gain(counter) == patterns'[counter] - patterns[counter]

\* C13: an update whose trailing distance window holds ten positive values
\* increments exactly one of approach, leave and stable: approach when
\* last - first < -50, leave when last - first > 50, stable otherwise; and
\* no update increments more than one of the three or adds more than one
\* to noise.
C13_ExactlyOneTrendVerdict ==
    [][RecordParsed =>
          /\ Gain("approach") + Gain("leave") + Gain("stable") \in {0, 1}
          /\ \A c \in {"approach", "leave", "stable"} : Gain(c) \in {0, 1}
          /\ Gain("noise") \in {0, 1}
          /\ FullPositiveWindow =>
                 LET delta == DistanceWindowAfter[10] - DistanceWindowAfter[1]
                 IN  /\ Gain("approach") = (IF delta < -50 THEN 1 ELSE 0)
                     /\ Gain("leave") = (IF delta > 50 THEN 1 ELSE 0)
                     /\ Gain("stable") = (IF delta >= -50 /\ delta <= 50 THEN 1 ELSE 0)]_vars

\* ten values that alternate between two distinct non-zero values
Alternates(w) ==
    /\ Len(w) = 10
    /\ w[1] # 0 /\ w[2] # 0 /\ w[1] # w[2]
    /\ \A k \in 3..10 : w[k] = w[k - 2]

HasNoiseCounter(v) == v \in {"analyzer", "enhanced"}

\* C14: in the front-ends that count noise, the update after which the
\* last ten target states alternate between two distinct non-zero values
\* (nine transitions) increments the noise counter.
C14_AlternatingStatesCountNoise ==
    [][(HasNoiseCounter(variant) /\ RecordParsed
          /\ Alternates(LastN(data_history'.target_state, 10))) =>
              Gain("noise") = 1]_vars

\* the first ten records of an instance alternate and noise was counted once
C14_Witness ==
    /\ HasNoiseCounter(variant)
    /\ Len(read_chunks) = 10
    /\ Alternates([k \in 1..10 |-> read_chunks[k].state])
    /\ Alternates(LastN(data_history.target_state, 10))
    /\ patterns.noise = 1

Counted(counter) == stats'[counter] - stats[counter]

\* C15: every record handed over, whatever its target state (0..255), adds
\* one to the total-frame count, one to the moving-detection count iff bit1
\* is set, one to the still-detection count iff bit2 is set, and one to the
\* no-target count iff bit0 is clear; a record with bit1 set and bit0 clear
\* is counted both as a moving detection and as no target.
C15_DetectionCountersFollowBits ==
    [][RecordParsed =>
          LET state == Head(transport).state
          IN  /\ Counted("total_frames") = 1
              /\ Counted("moving_detections") = (IF Bit1(state) THEN 1 ELSE 0)
              /\ Counted("still_detections") = (IF Bit2(state) THEN 1 ELSE 0)
              /\ Counted("no_target") = (IF Bit0(state) THEN 0 ELSE 1)]_vars

(***************************************************************************)
(* The protocol tools (ld2412_cli.py, ld2412_gui.py): they locate data and *)
(* command frames, print what they decode and count the frames.            *)
(***************************************************************************)
ToolVariants == {"cli", "gui"}

CMD_HEADER == <<253, 252, 251, 250>>
CMD_FOOTER == <<4, 3, 2, 1>>

\* self.stats after __init__ and after clear_display
NewToolStats == [total_bytes |-> 0, data_frames |-> 0, cmd_frames |-> 0]

\* buffer[p:p+4] == magic
MagicAt(buf, p, magic) == Slice(buf, p, p + 4) = magic

\* for j in range(i + 8, len(buffer) - 3): if buffer[j:j+4] == footer: end_pos = j + 4
ToolFindFooter(buf, i, footer) ==
    LET js == {j \in (i + 8)..(Len(buf) - 4) : MagicAt(buf, j, footer)}
    IN  IF js = {} THEN -1 ELSE Min(js) + 4

\* parse_data_frame: what it prints for one located span.  An optional
\* value is a sequence of length zero or one.
ParseDataFrame(frame) ==
    [kind |-> "data",
     frame |-> frame,
     fields |-> IF Len(frame) >= 23 THEN <<Fields(frame)>> ELSE <<>>,
     light |-> IF Len(frame) >= 23 /\ Len(frame) > 45 THEN <<frame[45 + 1]>> ELSE <<>>]

\* parse_cmd_frame: what it prints for one located span
ParseCmdFrame(frame) ==
    [kind |-> "cmd",
     frame |-> frame,
     cmd_code |-> IF Len(frame) >= 7 THEN <<frame[6 + 1]>> ELSE <<>>,
     payload |-> IF Len(frame) >= 7 /\ Len(frame) > 8
                 THEN <<Slice(frame, 8, Len(frame) - 4)>> ELSE <<>>]

\* The while loop of analyze_frames from cursor i.  The iterations that find
\* neither header only add one to i, so the loop is entered again at the
\* next position that holds a header.
RECURSIVE ToolScanFrom(_, _, _)
ToolScanFrom(c, buf, i) ==
    LET hs == {p \in i..(Len(buf) - 8) :
                  MagicAt(buf, p, DATA_HEADER) \/ MagicAt(buf, p, CMD_HEADER)}
    IN  IF hs = {} THEN c
        ELSE LET h == Min(hs)
                 is_data == MagicAt(buf, h, DATA_HEADER)
                 end_pos == ToolFindFooter(buf, h, IF is_data THEN DATA_FOOTER ELSE CMD_FOOTER)
                 frame == Slice(buf, h, end_pos)
             IN  IF end_pos = -1 THEN ToolScanFrom(c, buf, h + 1)
                 ELSE IF is_data
                 THEN ToolScanFrom([c EXCEPT !.printed = Append(@, ParseDataFrame(frame)),
                                             !.stats.data_frames = @ + 1], buf, end_pos)
                 ELSE ToolScanFrom([c EXCEPT !.printed = Append(@, ParseCmdFrame(frame)),
                                             !.stats.cmd_frames = @ + 1], buf, end_pos)

\* analyze_frames: scan a snapshot of the buffer, then truncate
ToolAnalyzeFrames(v, c) ==
    LET scanned == ToolScanFrom(c, c.raw_buffer, 0)
    IN  [scanned EXCEPT !.raw_buffer = Truncate(v, @)]

\* process_received_data: extend the buffer, count the bytes, scan
ToolProcessReceivedData(v, c, data) ==
    ToolAnalyzeFrames(v, [c EXCEPT !.raw_buffer = @ \o data,
                                   !.stats.total_bytes = @ + Len(data),
                                   !.printed = <<>>])

ToolNames == {"frame23", "frame46", "false_header", "cmd12", "cmd_ack",
              "short_then_frame", "cmd_then_frame", "garbage"}

ToolTapes == SeqsUpTo({Whole(n) : n \in ToolNames}, MaxFeeds)

Tool == [raw_buffer |-> raw_buffer, stats |-> stats, printed |-> printed]

\* the state after construction (__init__): the tools keep no history,
\* patterns or current record
InitTool ==
    /\ variant \in ToolVariants
    /\ transport \in ToolTapes
    /\ raw_buffer = <<>>
    /\ stats = NewToolStats
    /\ printed = <<>>
    /\ data_history = "None"
    /\ patterns = "None"
    /\ current_data = "None"
    /\ alerts = <<>>
    /\ data_queue = <<>>
    /\ serial_port = "None"
    /\ is_connected = FALSE
    /\ is_monitoring = FALSE
    /\ reader_pc = "check"
    /\ reader_data = NoData
    /\ ui_pc = "idle"
    /\ iteration_monitoring = FALSE
    /\ clock = 0
    /\ read_chunks = <<>>
    /\ calls = <<>>
    /\ twin = "None"

\* process_received_data(data) with the next chunk
ToolFeed ==
    /\ transport # <<>>
    /\ LET c == ToolProcessReceivedData(variant, Tool, Bytes(Head(transport)))
       IN  /\ raw_buffer' = c.raw_buffer
           /\ stats' = c.stats
           /\ printed' = c.printed
    /\ transport' = Tail(transport)
    /\ read_chunks' = Append(read_chunks, Head(transport))
    /\ calls' = Append(calls, Head(transport))
    /\ UNCHANGED <<variant, data_history, patterns, current_data, alerts, threadVars,
                   clock, twin>>

\* gui: clear_display()
ClearDisplay ==
    /\ variant = "gui"
    /\ Clears < MaxClears
    /\ stats' = NewToolStats
    /\ raw_buffer' = <<>>
    /\ calls' = Append(calls, ClearMark)
    /\ printed' = <<>>
    /\ UNCHANGED <<variant, transport, data_history, patterns, current_data, alerts,
                   threadVars, clock, read_chunks, twin>>

NextTool == ToolFeed \/ ClearDisplay

SpecTool == InitTool /\ [][NextTool]_vars

(***************************************************************************)
(* Claims about the minimum frame length                                   *)
(***************************************************************************)
\* the frames fed alone: spans of 20, 21, 22 and 23 bytes
LoneFrames == {"frame20", "frame21", "test22", "frame23"}

\* lowByte + 256 * highByte at offsets lo, lo + 1 of the span
DistanceAt(frame, lo) == frame[lo + 1] + 256 * frame[lo + 2]

\* C16: a telemetry frame fed alone to a fresh core is decoded into a record
\* if and only if its span is at least 21 bytes long (so the 21- and 22-byte
\* frames are decoded), and the distances of the record are lowByte +
\* 256*highByte read at offsets 9-10, 12-13 and 15-16.
C16_DecodedIffAtLeast21Bytes ==
    \A f \in LoneFrames :
        (Appended = <<Whole(f)>> /\ NoReset) =>
            /\ (Len(data_history.target_state) = 1) <=> (Len(Body(f)) >= 21)
            /\ (stats.total_frames = 1) <=> (Len(Body(f)) >= 21)
            /\ Len(Body(f)) >= 21 =>
                  /\ data_history.moving_distance = <<DistanceAt(Body(f), 9)>>
                  /\ data_history.still_distance = <<DistanceAt(Body(f), 12)>>
                  /\ data_history.detection_distance = <<DistanceAt(Body(f), 15)>>

\* C17: when one chunk holds a span too short to decode followed by a
\* 23-byte frame, the short span changes no frame count (only the 23-byte
\* frame is counted, no command frame) and the 23-byte frame behind it is
\* decoded in the same call.
C17_ShortSpanDroppedSilently ==
    (Appended = <<Whole("short_then_frame")>> /\ NoReset) =>
        /\ stats.data_frames = 1
        /\ stats.cmd_frames = 0
        /\ \E k \in 1..Len(printed) :
              printed[k].kind = "data" /\ printed[k].fields = <<Frame23Record>>

(***************************************************************************)
(* Claims about the fields the tools print                                 *)
(***************************************************************************)
\* the span holds offset 17 in front of its four footer bytes
CarriesLight(frame) == Len(frame) - 4 > 17

\* C18: every decoded record of a frame long enough to carry the ambient
\* light shows as its light value the byte at offset 17 of the span (so
\* never nothing, never a default and never a footer byte).
C18_AmbientLightIsOffset17 ==
    \A k \in 1..Len(printed) :
        (printed[k].kind = "data" /\ printed[k].fields # <<>>
            /\ CarriesLight(printed[k].frame)) =>
                printed[k].light = <<printed[k].frame[17 + 1]>>

\* the chunks that deliver a command frame, and the command frame each holds
CmdChunks == {"cmd12", "cmd_ack", "cmd_then_frame"}
CmdIn(name) == IF name = "cmd_ack" THEN CmdAck ELSE Cmd12

\* the Command frame the claim expects for the byte sequence cmd: the code
\* is the byte at offset 6, the payload the bytes from offset 8 up to the footer
CommandFrame(cmd) ==
    [kind |-> "cmd", frame |-> cmd, cmd_code |-> <<cmd[6 + 1]>>,
     payload |-> <<SubSeq(cmd, 8 + 1, Len(cmd) - 4)>>]

\* C19: once a chunk holding a command sequence FD FC FB FA ... 04 03 02 01
\* has been processed, the call has emitted it as a Command frame whose
\* code is the byte at offset 6 and whose payload is the bytes between
\* offset 8 and the footer (empty for the 12-byte query command).
C19_EveryCommandFrameEmitted ==
    \A f \in CmdChunks :
        (calls # <<>> /\ calls[Len(calls)] = Whole(f)) =>
            \E k \in 1..Len(printed) : printed[k] = CommandFrame(CmdIn(f))

\* the longest span a footer found inside the window can close: the footer
\* starts at most at offset FOOTER_WINDOW - 1 and has four bytes
MaxSpan == FOOTER_WINDOW - 1 + 4

\* C20: a footer is accepted for a header at i only at a position j with
\* i+8 <= j < i+50, so no emitted frame span is longer than 53 bytes (a
\* header with no footer in the window is passed over as a false positive).
C20_NoSpanLongerThan53Bytes ==
    \A k \in 1..Len(printed) : Len(printed[k].frame) <= MaxSpan

(***************************************************************************)
(* Claims about the history and the statistics of the records pushed       *)
(***************************************************************************)
\* the telemetry record the frame of r decodes to
Pushed(r) ==
    [state |-> r.state, move_dist |-> r.dist, move_energy |-> MoveEnergy(r),
     still_dist |-> r.dist, still_energy |-> StillEnergy(r), detect_dist |-> r.dist]

\* the records pushed so far, oldest first
AllPushed == [k \in 1..Len(read_chunks) |-> Pushed(read_chunks[k])]

\* C21: after n pushes the history holds exactly the most recent
\* min(n, capacity) records in insertion order: it never grows beyond the
\* capacity and a push on a full history evicts the oldest record only.
C21_HistoryHoldsMostRecent ==
    /\ Len(data_history.target_state) <= Capacity(variant)
    /\ Len(data_history.time) = Len(data_history.target_state)
    /\ Records(data_history) =
           LastN(AllPushed, MinOf(Len(read_chunks), Capacity(variant)))

\* more records were pushed than the history holds
C21_Witness ==
    /\ Len(read_chunks) > Capacity(variant)
    /\ Len(data_history.target_state) = Capacity(variant)
    /\ Records(data_history)[1] = Pushed(read_chunks[Len(read_chunks) - Capacity(variant) + 1])

\* the positive detection distances pushed so far
PositiveDistances == {read_chunks[k].dist : k \in 1..Len(read_chunks)} \ {0}

\* C22: the minimum detection distance is the smallest positive distance
\* pushed and the maximum the largest one, for every 16-bit distance; while
\* none was pushed (records of distance 0 change nothing) the minimum is at
\* its unset value and the maximum is 0.
C22_MinMaxOfPositiveDistances ==
    IF PositiveDistances = {}
    THEN stats.min_distance = UNSET_MIN_DISTANCE /\ stats.max_distance = 0
    ELSE stats.min_distance = Min(PositiveDistances)
         /\ stats.max_distance = Max(PositiveDistances)

(***************************************************************************)
(* Claims about the alerts                                                 *)
(***************************************************************************)
\* the record parsed last
LastRecord == read_chunks[Len(read_chunks)]

\* the most recent parse raised alert a
Raised(a) == \E k \in 1..Len(alerts) : alerts[k] = a

\* C23: for each record, a near-range alert is raised iff 0 < distance < 50,
\* a moving-energy alert iff movingEnergy > 80 and a still-energy alert iff
\* stillEnergy > 80, both together when both energies exceed 80, whatever
\* the target state.
C23_AlertsFollowThresholds ==
    read_chunks # <<>> =>
        /\ Raised("near_range") <=> (0 < LastRecord.dist /\ LastRecord.dist < 50)
        /\ Raised("high_moving_energy") <=> (MoveEnergy(LastRecord) > 80)
        /\ Raised("high_still_energy") <=> (StillEnergy(LastRecord) > 80)

\* the detection distance of a record is positive
Detected(r) == r.dist > 0

\* the trailing distance window: the last ten positive distances pushed
DistanceWindow ==
    LET pos == SelectSeq(read_chunks, Detected)
    IN  LastN([k \in 1..Len(pos) |-> pos[k].dist], 10)

\* C24: in the analyzer CLI a rapid-approach alert is raised for a record
\* iff the trailing distance window holds at least 3 samples and its last
\* sample is more than 50 below the sample two positions earlier; with
\* fewer than 3 samples it is never raised.
C24_RapidApproachAlert ==
    (variant = "analyzer_cli" /\ read_chunks # <<>>) =>
        /\ patterns.last_distances = DistanceWindow
        /\ Raised("rapid_approach") <=>
              /\ Len(DistanceWindow) >= 3
              /\ DistanceWindow[Len(DistanceWindow)]
                    < DistanceWindow[Len(DistanceWindow) - 2] - 50

\* a run of equal distances ends with a drop of more than 50 below the
\* sample two positions earlier, and the alert is raised
C24_Witness ==
    /\ variant = "analyzer_cli"
    /\ Len(DistanceWindow) >= 3
    /\ DistanceWindow[Len(DistanceWindow)] = 149
    /\ DistanceWindow[Len(DistanceWindow) - 2] = 200
    /\ Raised("rapid_approach")

(***************************************************************************)
(* Claims about records that report no detection                           *)
(***************************************************************************)
\* the trailing distance window before the step
DistanceWindowBefore ==
    IF variant = "analyzer" THEN LastN(data_history.detection_distance, 10)
    ELSE patterns.last_distances

\* C25: an update with a record of detection distance 0 leaves the
\* approach, leave and stable counters and the trailing distance window
\* as they were.
C25_ZeroDistanceLeavesTrendAlone ==
    [][(RecordParsed /\ Head(transport).dist = 0) =>
          /\ Gain("approach") = 0
          /\ Gain("leave") = 0
          /\ Gain("stable") = 0
          /\ DistanceWindowAfter = DistanceWindowBefore]_vars

(***************************************************************************)
(* Claims about the running averages and the timestamps                    *)
(***************************************************************************)
\* the records the history retains, by the records pushed
Retained == LastN(AllPushed, MinOf(Len(read_chunks), Capacity(variant)))

MovingEnergies == [k \in 1..Len(Retained) |-> Retained[k].move_energy]
StillEnergies == [k \in 1..Len(Retained) |-> Retained[k].still_energy]

\* average * count = total, for an average kept as the quotient sum / n
AverageTimes(avg, count, total) == avg.sum * count = total * avg.n

\* C26: after every push of the enhanced GUI the average moving energy
\* times the number of records retained equals the sum of movingEnergy over
\* exactly the retained records (the one just pushed included, the evicted
\* ones excluded); likewise for the still energy.
C26_AverageOverRetainedRecords ==
    (variant = "enhanced" /\ read_chunks # <<>>) =>
        /\ AverageTimes(stats.avg_moving_energy, Len(Retained), SumSeq(MovingEnergies))
        /\ AverageTimes(stats.avg_still_energy, Len(Retained), SumSeq(StillEnergies))

\* the enhanced GUI has pushed more records than its history holds
C26_Witness ==
    /\ variant = "enhanced"
    /\ Len(read_chunks) > Capacity(variant)
    /\ stats.avg_moving_energy.n = Capacity(variant)
    /\ stats.avg_moving_energy.sum = SumSeq(MovingEnergies)
    /\ \E k \in 1..(Len(read_chunks) - Capacity(variant)) :
          Pushed(read_chunks[k]).move_energy > 0

\* C27: the capturedAt values of the records the analyzer retains are
\* strictly increasing in insertion order after any number of pushes, also
\* after the history has reached its capacity.
C27_TimestampsStrictlyIncreasing ==
    variant = "analyzer" =>
        \A k \in 1..(Len(data_history.time) - 1) :
            data_history.time[k] < data_history.time[k + 1]

(***************************************************************************)
(* The consumer under fair scheduling: the timer callback update_ui is     *)
(* armed again at the end of every pass (root.after(100, self.update_ui)), *)
(* so a pass that can take a message or return eventually does.            *)
(***************************************************************************)
\* what every step of the consumer changes: the number of queued messages
\* (a message is taken) or its position (the pass returns)
consumerVars == <<Len(data_queue), ui_pc>>

\* what UpdateUiGet does to the queue and to the consumer's position: the
\* loop of update_ui takes the oldest message. A step of Next is such a step
\* exactly when it is an UpdateUiGet step, and the two are enabled in the
\* same states.
UpdateUiTakes ==
    /\ UsesQueue(variant)
    /\ ui_pc \in {"idle", "drain"}
    /\ data_queue # <<>>
    /\ data_queue' = QueueGet(data_queue).rest
    /\ ui_pc' = "drain"

SpecFair ==
    Init /\ [][Next]_vars /\ WF_consumerVars(UpdateUiTakes) /\ WF_consumerVars(UpdateUiDone)

\* C28: in the queue-based front-ends every chunk the reader has enqueued
\* is eventually taken off the queue and appended to the byte buffer; and a
\* drain pass that finds the queue empty does nothing but return.
C28_EnqueuedChunksEventuallyAppended ==
    /\ \A j \in 1..MaxReads :
          (UsesQueue(variant) /\ Len(Enqueued) >= j) ~> (Len(Appended) >= j)
    /\ [][(ui_pc = "drain" /\ data_queue = <<>>) =>
              (ui_pc' = "idle" /\ data_queue' = <<>> /\ calls' = calls)]_ui_pc

\* both chunks of the tape were enqueued and appended, the queue is empty
\* and the drain pass has returned
C28_Witness ==
    /\ UsesQueue(variant)
    /\ Len(Enqueued) = 2
    /\ Appended = Enqueued
    /\ data_queue = <<>>
    /\ ui_pc = "idle"

(***************************************************************************)
(* Frames behind garbage                                                   *)
(***************************************************************************)
IsSuffix(a, b) == Len(a) <= Len(b) /\ SubSeq(b, Len(b) - Len(a) + 1, Len(b)) = a

\* C29: whatever header-free garbage came first and however the frame is
\* chunked, once all bytes of a well-formed frame of decodable length have
\* been fed the frame has been decoded at least once; and while only its
\* head has arrived, the truncation that follows the scan has left those
\* bytes at the end of the buffer.
C29_FrameBehindGarbageDecoded ==
    \A f \in FrameNames : \A g \in 0..MaxGarbage : \A t \in ChunkingsOf(f) :
        /\ (NoReset /\ Appended = GarbageRun(g) \o t) => stats.total_frames >= 1
        /\ (NoReset /\ Len(t) = 2 /\ Appended = GarbageRun(g) \o <<t[1]>>) =>
               IsSuffix(Bytes(t[1]), raw_buffer)

(***************************************************************************)
(* ld2412_web_analyzer.py: the reader thread runs parse_frame on the       *)
(* module-level history, statistics and patterns while a Flask request     *)
(* thread serves /api/clear_data and /api/get_data on the same objects.    *)
(* No lock is taken anywhere; every statement is a step of its own.        *)
(* reader_pc names the statement of parse_frame the reader executes next,  *)
(* ui_pc the request in service and the series it has reached, printed     *)
(* the `history` part of the response api_get_data is building.            *)
(***************************************************************************)
MaxWebRecords == 2
MaxGets == 1
WebCapacity == 100

\* the keys of data_history, in the order the dict was built
WebSeries ==
    <<"time", "moving_distance", "moving_energy", "still_distance", "still_energy",
      "detection_distance", "target_state">>

\* the series api_get_data copies into `history`, in the order it copies them
WebHistoryKeys == SubSeq(WebSeries, 1, 6)

KeysOf(seq) == {seq[k] : k \in 1..Len(seq)}
IndexOf(seq, x) == CHOOSE k \in 1..Len(seq) : seq[k] = x

\* the element after x, or last when x is the final one
After(seq, x, last) == IF IndexOf(seq, x) = Len(seq) THEN last ELSE seq[IndexOf(seq, x) + 1]

WebInitHistory == [key \in KeysOf(WebSeries) |-> <<>>]

WebNewStats ==
    [total_frames |-> 0, moving_detections |-> 0, still_detections |-> 0,
     no_target |-> 0, max_distance |-> 0, min_distance |-> UNSET_MIN_DISTANCE,
     avg_moving_distance |-> 0, avg_still_distance |-> 0]

WebInitPatterns == [approach |-> 0, leave |-> 0, stable |-> 0, noise |-> 0]

WebIdle == [op |-> "idle", at |-> ""]
GetMark == [part |-> "get", name |-> "", k |-> 0]
IsGet(c) == c.part = "get"
Gets == Len(SelectSeq(calls, IsGet))

\* the records the sensor sends: a moving target and no target in turn, at
\* 100 cm, 200 cm, ...
WebTapes ==
    {[k \in 1..MaxWebRecords |-> [state |-> IF k % 2 = b THEN 3 ELSE 0, dist |-> 100 * k]] :
        b \in {0, 1}}

InitWeb ==
    /\ variant = "web"
    /\ transport \in WebTapes
    /\ raw_buffer = <<>>
    /\ data_history = WebInitHistory
    /\ stats = WebNewStats
    /\ patterns = WebInitPatterns
    /\ current_data = "None"
    /\ alerts = <<>>
    /\ printed = <<>>
    /\ data_queue = <<>>
    /\ serial_port = "open"
    /\ is_connected = TRUE
    /\ is_monitoring = TRUE
    /\ reader_pc = "idle"
    /\ reader_data = NoData
    /\ ui_pc = WebIdle
    /\ iteration_monitoring = FALSE
    /\ clock = 0
    /\ read_chunks = <<>>
    /\ calls = <<>>
    /\ twin = "None"

\* what parse_frame appends to a series: the time stamp (in tenths of a
\* second) is the length of the time series when it is computed
WebValue(key, f, h) ==
    CASE key = "time" -> Len(h.time)
      [] key = "moving_distance" -> f.move_dist
      [] key = "moving_energy" -> f.move_energy
      [] key = "still_distance" -> f.still_dist
      [] key = "still_energy" -> f.still_energy
      [] key = "detection_distance" -> f.detect_dist
      [] key = "target_state" -> f.target_state

\* parse_frame: the length check and the locals decoded from the frame
WebFields(frame) ==
    LET f == Fields(frame)
    IN  [target_state |-> f.state, move_dist |-> f.move_dist, move_energy |-> f.move_energy,
         still_dist |-> f.still_dist, still_energy |-> f.still_energy,
         detect_dist |-> f.detect_dist]

webRest == <<variant, raw_buffer, current_data, alerts, data_queue, serial_port,
             is_connected, is_monitoring, iteration_monitoring, clock, twin>>

\* analyze_frames hands the next frame to parse_frame
WebParseBegin ==
    /\ reader_pc = "idle"
    /\ transport # <<>>
    /\ Len(RecordFrame(Head(transport))) >= MIN_FRAME_LEN
    /\ reader_data' = WebFields(RecordFrame(Head(transport)))
    /\ transport' = Tail(transport)
    /\ read_chunks' = Append(read_chunks, Head(transport))
    /\ reader_pc' = "time"
    /\ UNCHANGED <<webRest, data_history, stats, patterns, printed, ui_pc, calls>>

\* parse_frame: one of the seven data_history[...].append statements
WebParseAppend ==
    /\ reader_pc \in KeysOf(WebSeries)
    /\ data_history' =
          [data_history EXCEPT
             ![reader_pc] = DequeAppend(@, WebValue(reader_pc, reader_data, data_history),
                                        WebCapacity)]
    /\ reader_pc' = After(WebSeries, reader_pc, "stats")
    /\ UNCHANGED <<webRest, transport, stats, patterns, printed, reader_data, ui_pc,
                   read_chunks, calls>>

\* parse_frame: the updates of the statistics
WebParseStats ==
    /\ reader_pc = "stats"
    /\ LET st == reader_data.target_state
           d == reader_data.detect_dist
           s1 == [stats EXCEPT !.total_frames = @ + 1]
           s2 == IF Bit0(st)
                 THEN [s1 EXCEPT !.moving_detections = IF Bit1(st) THEN @ + 1 ELSE @,
                                 !.still_detections = IF Bit2(st) THEN @ + 1 ELSE @]
                 ELSE [s1 EXCEPT !.no_target = @ + 1]
       IN  stats' = IF d > 0
                    THEN [s2 EXCEPT !.max_distance = MaxOf(@, d), !.min_distance = MinOf(@, d)]
                    ELSE s2
    /\ reader_pc' = "patterns"
    /\ UNCHANGED <<webRest, transport, data_history, patterns, printed, reader_data, ui_pc,
                   read_chunks, calls>>

\* parse_frame: analyze_patterns(), and the return
WebParsePatterns ==
    /\ reader_pc = "patterns"
    /\ patterns' = AnalyzePatterns(patterns, data_history)
    /\ reader_pc' = "idle"
    /\ reader_data' = NoData
    /\ UNCHANGED <<webRest, transport, data_history, stats, printed, ui_pc, read_chunks, calls>>

\* a POST /api/clear_data arrives
ApiClearDataBegin ==
    /\ ui_pc = WebIdle
    /\ Clears < MaxClears
    /\ calls' = Append(calls, ClearMark)
    /\ ui_pc' = [op |-> "clear", at |-> "time"]
    /\ UNCHANGED <<webRest, transport, data_history, stats, patterns, printed, reader_pc,
                   reader_data, read_chunks>>

\* api_clear_data: data_history[key].clear() for the next key
ApiClearDataSeries ==
    /\ ui_pc.op = "clear"
    /\ ui_pc.at \in KeysOf(WebSeries)
    /\ data_history' = [data_history EXCEPT ![ui_pc.at] = <<>>]
    /\ ui_pc' = [op |-> "clear", at |-> After(WebSeries, ui_pc.at, "stats")]
    /\ UNCHANGED <<webRest, transport, stats, patterns, printed, reader_pc, reader_data,
                   read_chunks, calls>>

\* api_clear_data: stats = {...}
ApiClearDataStats ==
    /\ ui_pc = [op |-> "clear", at |-> "stats"]
    /\ stats' = WebNewStats
    /\ ui_pc' = [op |-> "clear", at |-> "patterns"]
    /\ UNCHANGED <<webRest, transport, data_history, patterns, printed, reader_pc,
                   reader_data, read_chunks, calls>>

\* api_clear_data: the pattern counters are zeroed and the response is sent
ApiClearDataPatterns ==
    /\ ui_pc = [op |-> "clear", at |-> "patterns"]
    /\ patterns' = WebInitPatterns
    /\ ui_pc' = WebIdle
    /\ UNCHANGED <<webRest, transport, data_history, stats, printed, reader_pc, reader_data,
                   read_chunks, calls>>

\* a GET /api/get_data arrives; `history` is still to be built
ApiGetDataBegin ==
    /\ ui_pc = WebIdle
    /\ Gets < MaxGets
    /\ calls' = Append(calls, GetMark)
    /\ printed' = [key \in KeysOf(WebHistoryKeys) |-> <<>>]
    /\ ui_pc' = [op |-> "get", at |-> "time"]
    /\ UNCHANGED <<webRest, transport, data_history, stats, patterns, reader_pc,
                   reader_data, read_chunks>>

\* api_get_data: list(data_history[key]) for the next key of `history`
ApiGetDataCopy ==
    /\ ui_pc.op = "get"
    /\ printed' = [printed EXCEPT ![ui_pc.at] = data_history[ui_pc.at]]
    /\ ui_pc' = IF After(WebHistoryKeys, ui_pc.at, "") = "" THEN WebIdle
                ELSE [op |-> "get", at |-> After(WebHistoryKeys, ui_pc.at, "")]
    /\ UNCHANGED <<webRest, transport, data_history, stats, patterns, reader_pc,
                   reader_data, read_chunks, calls>>

NextWeb ==
    \/ WebParseBegin \/ WebParseAppend \/ WebParseStats \/ WebParsePatterns
    \/ ApiClearDataBegin \/ ApiClearDataSeries \/ ApiClearDataStats \/ ApiClearDataPatterns
    \/ ApiGetDataBegin \/ ApiGetDataCopy

SpecWeb == InitWeb /\ [][NextWeb]_vars

SameLength(h, keys) == \A a, b \in keys : Len(h[a]) = Len(h[b])

\* C30: in the web analyzer, whatever the interleaving of parse_frame with
\* a clear-data request or a snapshot read, the series of a finished
\* snapshot all have the same length, the series a push finds when it
\* starts all have the same length, and once both threads are at rest a
\* clear has been undone by no part of a record: the history holds as many
\* records as the statistics count.
C30_SeriesSameLength ==
    /\ (ui_pc.op # "get" /\ printed # <<>>) => SameLength(printed, KeysOf(WebHistoryKeys))
    /\ reader_pc = "idle" => SameLength(data_history, KeysOf(WebSeries))
    /\ (reader_pc = "idle" /\ ui_pc = WebIdle) =>
          stats.total_frames = Len(data_history.time)

(***************************************************************************)
(* The spans a scan emits                                                  *)
(***************************************************************************)
\* The spans buffer[from:to] the while loop of analyze_frames / analyze_data
\* hands to the decoder from cursor i on, in the order it emits them.
RECURSIVE SpansFrom(_, _, _)
SpansFrom(v, buf, i) ==
    LET hs == {p \in i..(Len(buf) - 8) : HeaderAt(buf, p)}
    IN  IF hs = {} THEN <<>>
        ELSE LET h == Min(hs)
                 end_pos == FindFooter(v, buf, h)
             IN  IF end_pos # -1
                 THEN <<[from |-> h, to |-> end_pos]>> \o SpansFrom(v, buf, end_pos)
                 ELSE SpansFrom(v, buf, h + 1)

\* the spans the scan of the most recent feed emitted; the buffer is the
\* one that scan read as long as the feed did not truncate it
Spans == SpansFrom(variant, raw_buffer, 0)

\* C31: no span the scanner emits holds a second header magic after its
\* first four bytes; in particular a lone header followed within the footer
\* window by a whole frame gives one record, read from that frame.
C31_NoSpanAcrossTwoHeaders ==
    /\ \A k \in 1..Len(Spans) :
          \A p \in (Spans[k].from + 4)..(Spans[k].to - 4) : ~HeaderAt(raw_buffer, p)
    /\ (Appended = <<Whole("header_then_frame")>> /\ NoReset) =>
          Records(data_history) = <<Frame23Record>>

(***************************************************************************)
(* The cut at the end of a feed                                            *)
(***************************************************************************)
\* the buffer a feed call works on: what was kept, then the new chunk
FedBuffer == raw_buffer \o Bytes(Head(transport))

\* C32: a feed call that ends with more than H bytes in the buffer leaves
\* exactly the last L of them (H = 1000 and L = 500; H = 2000 and L = 1000
\* in the enhanced GUI), and one that ends with at most H bytes leaves the
\* buffer as extended; nothing is cut a second time.
C32_CutToLastBytes ==
    [][Feed =>
         LET H == IF variant = "enhanced" THEN 2000 ELSE 1000
             L == IF variant = "enhanced" THEN 1000 ELSE 500
             n == Len(FedBuffer)
         IN  raw_buffer' = IF n > H THEN SubSeq(FedBuffer, n - L + 1, n) ELSE FedBuffer]_vars

\* a feed ended with exactly H bytes and cut nothing, and the feed of one
\* more byte cut the buffer down to L
C32_Witness ==
    /\ Len(Appended) >= 2
    /\ Appended[Len(Appended)] = Whole("noise")
    /\ \A k \in 1..(Len(Appended) - 1) : Appended[k] = Whole("brim")
    /\ BrimLen * (Len(Appended) - 1) = (IF variant = "enhanced" THEN 2000 ELSE 1000)
    /\ Len(raw_buffer) = (IF variant = "enhanced" THEN 1000 ELSE 500)

(***************************************************************************)
(* Records and resets: the frame handler is run on one decodable frame     *)
(* after the other, with clear_data called in between.                     *)
(***************************************************************************)
\* target states with and without bit 0, also bit 1 or bit 2 without bit 0
CountStates == <<0, 1, 3, 2, 5, 4, 7>>

\* more records than the history of the variant holds, the target states
\* taken in turn from CountStates
CountTapes(v) ==
    {[k \in 1..(Capacity(v) + Overflow) |->
        [state |-> CountStates[(k % Len(CountStates)) + 1], dist |-> 100 + k]]}

InitResets == InitCommon /\ transport \in CountTapes(variant)

\* the entry of the call history for a record handed to the frame handler;
\* k is its target state
RecordMark(r) == [part |-> "record", name |-> "", k |-> r.state]
IsRecord(c) == c.part = "record"

\* parse_and_analyze_frame / parse_frame_enhanced / parse_data_frame with the
\* frame of the next record
PushRecord ==
    /\ transport # <<>>
    /\ SetCore(ParseFrame(variant, Core, RecordFrame(Head(transport)), clock))
    /\ transport' = Tail(transport)
    /\ read_chunks' = Append(read_chunks, Head(transport))
    /\ calls' = Append(calls, RecordMark(Head(transport)))
    /\ UNCHANGED <<variant, threadVars, clock, twin>>

NextResets == PushRecord \/ ClearData

SpecResets == InitResets /\ [][NextResets]_vars

\* the calls made after the last reset
SinceReset ==
    LET resets == {k \in 1..Len(calls) : IsClear(calls[k])}
    IN  SubSeq(calls, (IF resets = {} THEN 0 ELSE Max(resets)) + 1, Len(calls))

\* the target states of the records pushed since the last reset
PushedSinceReset == SelectSeq(SinceReset, IsRecord)

\* C33: after any pushes and resets the total-frame count is the number of
\* records pushed since the last reset, the history holds min(total-frame
\* count, capacity) records, and the no-target count plus the number of
\* pushed records with bit 0 set is the total-frame count.
C33_CountersMatchPushes ==
    /\ stats.total_frames = Len(PushedSinceReset)
    /\ Len(data_history.target_state) = MinOf(stats.total_frames, Capacity(variant))
    /\ stats.no_target
          + Cardinality({k \in 1..Len(PushedSinceReset) : Bit0(PushedSinceReset[k].k)})
          = stats.total_frames

\* after a reset more records were pushed than the history holds, some
\* with a target and some without
C33_Witness ==
    /\ Clears > 0
    /\ Len(PushedSinceReset) < Len(read_chunks)
    /\ stats.total_frames > Capacity(variant)
    /\ Len(data_history.target_state) = Capacity(variant)
    /\ stats.no_target > 0
    /\ stats.no_target < stats.total_frames

(***************************************************************************)
(* The scan loop, one iteration per step: analyze_frames of                *)
(* ld2412_analyzer.py and ld2412_cli.py and analyze_data of the enhanced   *)
(* GUI on a snapshot of the buffer.  ui_pc holds the cursor i, printed the *)
(* spans buffer[from:to] handed to the decoder so far; what the decoder    *)
(* does with a span touches neither the cursor nor the snapshot and is     *)
(* left out.                                                               *)
(***************************************************************************)
MaxPieces == 2

ScanVariants == {"analyzer", "enhanced", "cli"}

\* the shortest span a footer search can close, and a header whose footer
\* comes too early to be one
Frame12 == DATA_HEADER \o Zeros(4) \o DATA_FOOTER
Frame8 == DATA_HEADER \o DATA_FOOTER

\* a data header with no footer of its own, then a command frame
HeaderThenCmd == DATA_HEADER \o Cmd12

ScanPieces ==
    {Frame23, Frame20, Frame12, Frame8, HeaderThenFrame, HeaderThenCmd, DATA_HEADER,
     Cmd12, CmdAck, CMD_HEADER, <<0>>, Zeros(FOOTER_WINDOW)}

ScanBuffers == {Flatten(ps) : ps \in SeqsUpTo(ScanPieces, MaxPieces)}

InitScan ==
    /\ variant \in ScanVariants
    /\ transport = <<>>
    /\ raw_buffer \in ScanBuffers
    /\ data_history = InitHistory
    /\ stats = NewStats(variant, 0)
    /\ patterns = InitPatterns
    /\ current_data = "None"
    /\ alerts = <<>>
    /\ printed = <<>>
    /\ data_queue = <<>>
    /\ serial_port = "None"
    /\ is_connected = FALSE
    /\ is_monitoring = FALSE
    /\ reader_pc = "check"
    /\ reader_data = NoData
    /\ ui_pc = [op |-> "scan", i |-> 0]
    /\ iteration_monitoring = FALSE
    /\ clock = 0
    /\ read_chunks = <<>>
    /\ calls = <<>>
    /\ twin = "None"

\* the cursor does not move when no footer is found
AdvanceStuck(i, end_pos) == IF end_pos # -1 THEN end_pos ELSE i

\* i = end_pos after a span was emitted, i += 1 otherwise
Advance(i, end_pos) == IF end_pos # -1 THEN end_pos ELSE i + 1

\* the footer search of one iteration at cursor i: end_pos, or -1 when no
\* header starts at i or its footer is not found
ScanEndPos(v, buf, i) ==
    IF MagicAt(buf, i, DATA_HEADER)
    THEN IF v = "cli" THEN ToolFindFooter(buf, i, DATA_FOOTER) ELSE FindFooter(v, buf, i)
    ELSE IF v = "cli" /\ MagicAt(buf, i, CMD_HEADER)
    THEN ToolFindFooter(buf, i, CMD_FOOTER)
    ELSE -1

scanRest == <<variant, transport, raw_buffer, data_history, stats, patterns, current_data,
              alerts, data_queue, serial_port, is_connected, is_monitoring, reader_pc,
              reader_data, iteration_monitoring, clock, read_chunks, calls, twin>>

\* one iteration of `while i < len(buffer) - 7`
ScanStep ==
    /\ ui_pc.op = "scan"
    /\ ui_pc.i < Len(raw_buffer) - 7
    /\ LET end_pos == ScanEndPos(variant, raw_buffer, ui_pc.i)
       IN  /\ printed' = IF end_pos # -1
                         THEN Append(printed, [from |-> ui_pc.i, to |-> end_pos])
                         ELSE printed
           /\ ui_pc' = [op |-> "scan", i |-> Advance(ui_pc.i, end_pos)]
    /\ UNCHANGED scanRest

\* the loop condition fails and the scan is over
ScanDone ==
    /\ ui_pc.op = "scan"
    /\ ~(ui_pc.i < Len(raw_buffer) - 7)
    /\ ui_pc' = [op |-> "done", i |-> ui_pc.i]
    /\ UNCHANGED <<scanRest, printed>>

NextScan == ScanStep \/ ScanDone

\* the thread that runs the scan keeps running
SpecScan == InitScan /\ [][NextScan]_vars /\ WF_vars(NextScan)

\* a span starts with a header magic and ends with the footer magic of the
\* same kind
WellDelimited(buf, s) ==
    \/ MagicAt(buf, s.from, DATA_HEADER) /\ MagicAt(buf, s.to - 4, DATA_FOOTER)
    \/ MagicAt(buf, s.from, CMD_HEADER) /\ MagicAt(buf, s.to - 4, CMD_FOOTER)

\* C34: a scan of a finite buffer ends; every iteration moves the cursor
\* forward, by one when nothing is emitted and to the end of the span when
\* one is; every span emitted starts with a header magic, ends with the
\* matching footer magic and has at least 12 bytes; and the spans of one
\* scan follow each other in the buffer without overlap.
C34_ScanTerminatesWithOrderedSpans ==
    /\ <>(ui_pc.op = "done")
    /\ [][ScanStep =>
             /\ ui_pc'.i > ui_pc.i
             /\ IF printed' = printed THEN ui_pc'.i = ui_pc.i + 1
                ELSE ui_pc'.i = printed'[Len(printed')].to]_vars
    /\ [](/\ \A k \in 1..Len(printed) :
                /\ WellDelimited(raw_buffer, printed[k])
                /\ printed[k].to - printed[k].from >= 12
          /\ \A k \in 1..(Len(printed) - 1) : printed[k].to <= printed[k + 1].from)

\* a scan is over that passed a header without a footer and emitted two
\* spans, the first of them of the least length
C34_Witness ==
    /\ ui_pc.op = "done"
    /\ Len(printed) = 2
    /\ printed[1].to - printed[1].from = 12
    /\ printed[2].from > printed[1].to
    /\ \E p \in printed[1].to..(printed[2].from - 1) : MagicAt(raw_buffer, p, DATA_HEADER)

====
